---------------------------- MODULE Spec2Model ----------------------------
(***************************************************************************)
(* A model of src/src/experiment.py: the column schema built by            *)
(* Experiment.__init__, the sign correction correct_signs, the single-run  *)
(* entropy engine Experiment.get_entropy with its row-dropping side        *)
(* effect, and the aggregations of SetOfExperiments.                       *)
(*                                                                         *)
(* Numbers.  Angle values are floats in the source.  The model uses        *)
(* integers, read as fixed-point values in tenths (10 is 1.0, -9 is -0.9), *)
(* and a threshold is a fraction <<numerator, denominator>> with a         *)
(* positive denominator, so that the comparison of correct_signs is exact. *)
(* Text.  A Python str is a sequence of one-character strings, so that     *)
(* `'sidechain' in filepath` is a real substring search.                   *)
(***************************************************************************)
EXTENDS Integers, Sequences, FiniteSets, TLC

VARIABLES
    \* --- correct_signs applied to an input series (SpecSigns) ---
    cs_series,      \* the input series
    cs_thres,       \* the threshold passed
    cs_pc,          \* "idle" | "once" | "twice": how often it was applied
    cs_out1,        \* correct_signs(series)
    cs_out2,        \* correct_signs(correct_signs(series))
    \* --- one Experiment and the calls made on it (SpecExp) ---
    e_state,        \* "none" before Experiment(filepath), then "live"
    e_mode,         \* the chain-type text the file path was built from
    e_obj,          \* the object: [chain, columns, dataframe]
    e_orig,         \* the rows of the dataframe as loaded
    e_calls,        \* calls of drop_first_observations and get_entropy so far
    e_last,         \* the last call: [op, xcol, ycol, before, result]
    \* --- one SetOfExperiments and the calls made on it (SpecSet) ---
    s_state,        \* "none", then "live", or "failed" when the assert fails
    s_obj,          \* the object: [chain, ion, no_experiments, magic_number,
                    \*              experiments]
    s_ops,          \* calls made on the set so far
    s_before,       \* the members' dataframes before the last call
    s_last,         \* the last call: [op, xcol, ycol, no_mers, plot, raised,
                    \*                 entropies]
    s_log,          \* the get_entropy invocations of the last call, in order
    s_perc,         \* what the last completed percentile mode summarised
    s_real          \* what the last completed realisation mode kept

sign_vars == <<cs_series, cs_thres, cs_pc, cs_out1, cs_out2>>

exp_vars == <<e_state, e_mode, e_obj, e_orig, e_calls, e_last>>

set_vars == <<s_state, s_obj, s_ops, s_before, s_last, s_log, s_perc, s_real>>

---------------------------------------------------------------------------
(* Bounds of the model *)

\* longest series / table (rows)
MaxLen == 3
\* values of a series lie in -MaxVal..MaxVal (tenths)
MaxVal == 10
\* most rows of a loaded table
MaxRows == 3
\* the file contents tried are numbered 0..MaxSeed
MaxSeed == 1
\* most calls made on one SetOfExperiments
MaxOps == 2
\* most mers asked of a cross-mer aggregation
MaxMers == 2

---------------------------------------------------------------------------
(* Small helpers *)

Abs(x) == IF x < 0 THEN -x ELSE x

Range(s) == {s[i] : i \in 1..Len(s)}

SeqsUpTo(S, n) == UNION {[1..k -> S] : k \in 0..n}

\* Body(v), with v computed once
With(v, Body(_)) == CHOOSE out \in {Body(x) : x \in {v}} : TRUE

---------------------------------------------------------------------------
(* correct_signs (experiment.py 230-238) *)

DefaultThresLarge == <<2, 1>>

\* thres: float = 0.5
DefaultThres == <<1, 2>>

\* np.abs(a + b) < thres * np.abs(b), cross-multiplied by the denominator
ThresholdHit(a, b, thres) == thres[2] * Abs(a + b) < thres[1] * Abs(b)

\* series_corrected[i:] *= -1, a slip of the slice's start
FlipSuffixFromI(s, k) ==
    [j \in 1..Len(s) |-> IF j >= k - 1 THEN -s[j] ELSE s[j]]

\* series_corrected[i + 1:] *= -1; k is the 1-based position of index i+1
FlipSuffix(s, k) ==
    [j \in 1..Len(s) |-> IF j >= k THEN -s[j] ELSE s[j]]

\* the loop body and the rest of the loop, from 1-based position i
\* (Python's i is i-1); range(len - 1) stops before the last element
RECURSIVE ScanFrom(_, _, _)
ScanFrom(s, i, thres) ==
    IF i >= Len(s) THEN s
    ELSE ScanFrom(IF ThresholdHit(s[i], s[i + 1], thres)
                  THEN FlipSuffix(s, i + 1) ELSE s,
                  i + 1, thres)

correct_signs(series, thres) == ScanFrom(series, 1, thres)

---------------------------------------------------------------------------
(* Text: str as a sequence of characters *)

S_sidechain == <<"s", "i", "d", "e", "c", "h", "a", "i", "n">>
S_analysis == <<"a", "n", "a", "l", "y", "s", "i", "s">>
S_other == <<"o", "t", "h", "e", "r">>
S_data == <<"d", "a", "t", "a">>
S_Ca == <<"C", "a">>
S_prefix == <<"A", "+", "H">>
S_tab == <<".", "t", "a", "b">>

\* needle in hay
Contains(hay, needle) ==
    \E k \in 0..(Len(hay) - Len(needle)) :
        SubSeq(hay, k + 1, k + Len(needle)) = needle

Digit(d) == <<"0", "1", "2", "3", "4", "5", "6", "7", "8", "9">>[d + 1]

\* str(n) as an f-string formats a non-negative int
RECURSIVE IntToStr(_)
IntToStr(n) ==
    IF n < 10 THEN <<Digit(n)>> ELSE IntToStr(n \div 10) \o <<Digit(n % 10)>>

\* os.path.join(a, b) for a relative b
PathJoin(a, b) ==
    IF a = <<>> \/ a[Len(a)] = "/" THEN a \o b ELSE a \o <<"/">> \o b

\* f"{prefix}_{i}_{chain}_{ion}.tab"
TabFileName(prefix, i, chain, ion) ==
    prefix \o <<"_">> \o IntToStr(i) \o <<"_">> \o chain \o <<"_">> \o ion
        \o S_tab

---------------------------------------------------------------------------
(* Experiment.__init__ (experiment.py 21-44): the column schema *)

\* range(23): the mers of the schema
SchemaMers == 23

ColumnMeaning(description, unit) == [description |-> description, unit |-> unit]

\* f"{angle} mers {mer+1}, {mer+2}" for the loop's mer, kept in its parts
AngleDescription(angle, mer) == <<angle, " mers ", mer + 1, ", ", mer + 2>>

FixedColumns ==
    << ColumnMeaning(<<"Time">>, "ps"),
       ColumnMeaning(<<"Total energy of the system">>, "kJ/mol"),
       ColumnMeaning(<<"Total bond energy">>, "kJ/mol"),
       ColumnMeaning(<<"Total angle energy">>, "kJ/mol"),
       ColumnMeaning(<<"Total dihedral energy">>, "kJ/mol"),
       ColumnMeaning(<<"Total planar energy">>, "kJ/mol"),
       ColumnMeaning(<<"Total Coulomb energy">>, "kJ/mol"),
       ColumnMeaning(<<"Total Van der Waals energy">>, "kJ/mol") >>

MainAnglesThree == <<"phi14", "psi14", "phi13">>

MainAngles == <<"phi14", "psi14", "phi13", "psi13">>

SideAngles == <<"gamma", "omega", "delta">>

\* the inner loop of the main chain: for angle in angles: append
MainMerBlock(mer) ==
    [a \in 1..Len(MainAngles) |->
        ColumnMeaning(AngleDescription(MainAngles[a], mer), "deg")]

\* for mer in range(23): for angle in angles: columns.append(...)
RECURSIVE MainChainLoop(_, _)
MainChainLoop(columns, mer) ==
    IF mer >= SchemaMers THEN columns
    ELSE MainChainLoop(columns \o MainMerBlock(mer), mer + 1)

\* the inner loop of the side chain: for mer in range(23): append
SideAngleBlock(angle) ==
    [m \in 1..SchemaMers |->
        ColumnMeaning(AngleDescription(angle, m - 1), "deg")]

\* for angle in angles: for mer in range(23): columns.append(...)
RECURSIVE SideChainLoop(_, _)
SideChainLoop(columns, a) ==
    IF a > Len(SideAngles) THEN columns
    ELSE SideChainLoop(columns \o SideAngleBlock(SideAngles[a]), a + 1)

\* self.chain = 'side chain' if 'sidechain' in filepath else 'main chain'
ChainOf(filepath) ==
    IF Contains(filepath, S_sidechain) THEN "side chain" ELSE "main chain"

SchemaOf(chain) ==
    IF chain = "main chain" THEN MainChainLoop(FixedColumns, 0)
    ELSE IF chain = "side chain" THEN SideChainLoop(FixedColumns, 1)
    ELSE FixedColumns

\* Experiment(filepath), with the table pd.read_csv loaded from the file
Experiment(filepath, table) ==
    [chain |-> ChainOf(filepath),
     columns |-> SchemaOf(ChainOf(filepath)),
     dataframe |-> table]

---------------------------------------------------------------------------
(* The loaded table.  A dataframe is [ncols, rows]; a row is [label, vals], *)
(* label being its pandas index label (read_csv numbers the rows 0, 1, ..)  *)

\* the value the file numbered seed holds at row r, column c (0-based)
CellValue(seed, r, c) == (((seed + 2 * r + 1) * (c + 3) + r * r) % 7) - 3

LoadedTable(seed, nrows, ncols) ==
    [ncols |-> ncols,
     rows |-> [r \in 1..nrows |->
                 [label |-> r - 1,
                  vals |-> [c \in 1..ncols |-> CellValue(seed, r - 1, c - 1)]]]]

\* drop_first_observations left out: the rows stay
KeepRows(df) == [raised |-> "none", df |-> df]

\* drop_first_observations (experiment.py 46-51): index[0] of an empty index
\* raises IndexError; drop(index=label) removes the rows carrying that label
drop_first_observations(df) ==
    IF Len(df.rows) = 0 THEN [raised |-> "IndexError", df |-> df]
    ELSE [raised |-> "none",
          df |-> [df EXCEPT !.rows =
                     SelectSeq(df.rows,
                               LAMBDA r : r.label # df.rows[1].label)]]

\* dataframe.iloc[:, col]: a position in -ncols..ncols-1, else IndexError
IlocValid(df, col) == -df.ncols <= col /\ col < df.ncols

Iloc(df, col) ==
    LET pos == IF col < 0 THEN col + df.ncols ELSE col
    IN  [r \in 1..Len(df.rows) |-> df.rows[r].vals[pos + 1]]

---------------------------------------------------------------------------
(* get_entropy (experiment.py 109-123) *)

\* bins=10
Bins == 10

SeqMin(s) == CHOOSE v \in Range(s) : \A w \in Range(s) : v <= w
SeqMax(s) == CHOOSE v \in Range(s) : \A w \in Range(s) : v >= w

\* The bin of v among Bins equal-width bins over [lo, hi], the last one
\* closed; numpy widens an empty range lo = hi by 0.5 on both sides, which
\* puts v in the middle bin.
BinOf(v, lo, hi) ==
    IF lo = hi THEN Bins \div 2
    ELSE IF v = hi THEN Bins - 1
    ELSE (Bins * (v - lo)) \div (hi - lo)

\* np.histogram2d(x, y, bins=10)[0], as its occupied bins with their counts
histogram2d(x, y) ==
    IF Len(x) = 0 THEN {}
    ELSE LET bx(r) == BinOf(x[r], SeqMin(x), SeqMax(x))
             by(r) == BinOf(y[r], SeqMin(y), SeqMax(y))
             occupied == {<<bx(r), by(r)>> : r \in 1..Len(x)}
         IN  {<<b, Cardinality({r \in 1..Len(x) : <<bx(r), by(r)>> = b})>> :
                 b \in occupied}

\* 8.314 * entropy(h_vec / sum(h_vec)).  The scalar is a function of the bin
\* counts, and the model keeps the counts it is computed from; with no rows
\* sum(h_vec) is 0, h_norm is 0/0 and the value returned is NaN.
EntropyOf(h) ==
    IF h = {} THEN [kind |-> "nan", hist |-> {}]
    ELSE [kind |-> "value", hist |-> h]

Raised(what) == [kind |-> what, hist |-> {}]

\* get_entropy(self, xcol, ycol): the object after the call (the drop is
\* done before a column is looked up), the result, and the rows it read
get_entropy(obj, xcol, ycol) ==
    With(drop_first_observations(obj.dataframe), LAMBDA dropped :
        IF dropped.raised # "none"
        THEN [obj |-> obj, result |-> Raised(dropped.raised), read |-> <<>>]
        ELSE IF ~IlocValid(dropped.df, ycol) \/ ~IlocValid(dropped.df, xcol)
        THEN [obj |-> [obj EXCEPT !.dataframe = dropped.df],
              result |-> Raised("IndexError"), read |-> <<>>]
        ELSE [obj |-> [obj EXCEPT !.dataframe = dropped.df],
              result |-> EntropyOf(histogram2d(
                            correct_signs(Iloc(dropped.df, xcol), DefaultThres),
                            correct_signs(Iloc(dropped.df, ycol), DefaultThres))),
              read |-> dropped.df.rows])

---------------------------------------------------------------------------
(* SetOfExperiments (experiment.py 126-228) *)

\* the dictionary with its two values exchanged
magic_numbers_swapped(chain) == IF chain = S_analysis THEN 1 ELSE 4

\* magic_numbers = {'analysis': 4, 'sidechain': 1}, looked up by chain
magic_numbers(chain) == IF chain = S_analysis THEN 4 ELSE 1

\* no_struct = 12
no_struct == 12

\* assert chain in ['analysis', 'sidechain']
ChainAccepted(chain) == chain \in {S_analysis, S_sidechain}

\* SetOfExperiments(data_path, experiment_prefix, ion, chain, no_experiments)
\* where tables[i] is what read_csv loads from the i-th file
SetOfExperiments(data_path, prefix, ion, chain, no_experiments, tables) ==
    [chain |-> chain,
     ion |-> ion,
     no_experiments |-> no_experiments,
     magic_number |-> magic_numbers(chain),
     experiments |->
        [i \in 1..no_experiments |->
            Experiment(PathJoin(data_path, TabFileName(prefix, i, chain, ion)),
                       tables[i])]]

\* columns[col] of a Python list: a position in -len..len-1, else IndexError
ListIndexValid(list, col) == -Len(list) <= col /\ col < Len(list)

\* one get_entropy invocation: the mer and member it was made for, its
\* arguments, the index labels of the rows it read, and its result
LogEntry(mer, j, xcol, ycol, g) ==
    [mer |-> mer, exp |-> j, xcol |-> xcol, ycol |-> ycol,
     read |-> [r \in 1..Len(g.read) |-> g.read[r].label],
     result |-> g.result]

\* a comprehension that leaves a failing member out and goes on
RECURSIVE EntropiesSkipping(_, _, _, _, _, _, _)
EntropiesSkipping(experiments, j, mer, xcol, ycol, entropies, log) ==
    With(<<experiments, entropies, log>>, LAMBDA at :
        IF j > Len(at[1])
        THEN [experiments |-> at[1], raised |-> "none",
              entropies |-> at[2], log |-> at[3]]
        ELSE With(get_entropy(at[1][j], xcol, ycol), LAMBDA g :
                EntropiesSkipping(
                    [at[1] EXCEPT ![j] = g.obj], j + 1, mer, xcol, ycol,
                    IF g.result.kind = "IndexError" THEN at[2]
                    ELSE Append(at[2], g.result),
                    Append(at[3], LogEntry(mer, j, xcol, ycol, g)))))

\* [experiment.get_entropy(xcol, ycol) for experiment in self.experiments]
\* from member j on: an exception of a member ends the comprehension, and
\* the members before it keep the rows they lost
RECURSIVE EntropiesFrom(_, _, _, _, _, _, _)
EntropiesFrom(experiments, j, mer, xcol, ycol, entropies, log) ==
    With(<<experiments, entropies, log>>, LAMBDA at :
        IF j > Len(at[1])
        THEN [experiments |-> at[1], raised |-> "none",
              entropies |-> at[2], log |-> at[3]]
        ELSE With(get_entropy(at[1][j], xcol, ycol), LAMBDA g :
                IF g.result.kind = "IndexError"
                THEN [experiments |-> [at[1] EXCEPT ![j] = g.obj],
                      raised |-> "IndexError",
                      entropies |-> <<>>,
                      log |-> Append(at[3], LogEntry(mer, j, xcol, ycol, g))]
                ELSE EntropiesFrom(
                        [at[1] EXCEPT ![j] = g.obj], j + 1, mer, xcol, ycol,
                        Append(at[2], g.result),
                        Append(at[3], LogEntry(mer, j, xcol, ycol, g)))))

\* xdesc = self.experiments[0].columns[xcol].description, and ydesc
DescriptionsRaise(experiments, xcol, ycol) ==
    \/ Len(experiments) = 0
    \/ ~ListIndexValid(experiments[1].columns, xcol)
    \/ ~ListIndexValid(experiments[1].columns, ycol)

\* hist_of_entropy(self, xcol, ycol, plotdir), for the mer it is called for;
\* the plot itself is written by matplotlib and changes nothing here
hist_of_entropy(experiments, mer, xcol, ycol, plotdir, log) ==
    With(EntropiesFrom(experiments, 1, mer, xcol, ycol, <<>>, log), LAMBDA r :
        IF r.raised = "none" /\ plotdir
                /\ DescriptionsRaise(r.experiments, xcol, ycol)
        THEN [r EXCEPT !.raised = "IndexError", !.entropies = <<>>]
        ELSE r)

\* for mer in range(no_mers): entropies = np.array(self.hist_of_entropy(
\*     xcol + self.magic_number * mer, ycol + self.magic_number * mer))
\* from mer on; grid holds the lists of the mers done
RECURSIVE MerLoop(_, _, _, _, _, _, _)
MerLoop(obj, mer, xcol, ycol, no_mers, grid, log) ==
    With(<<obj, grid, log>>, LAMBDA at :
        IF mer >= no_mers
        THEN [experiments |-> at[1].experiments, raised |-> "none",
              entropies |-> at[2], log |-> at[3]]
        ELSE With(hist_of_entropy(at[1].experiments, mer,
                                  xcol + at[1].magic_number * mer,
                                  ycol + at[1].magic_number * mer,
                                  FALSE, at[3]),
                  LAMBDA h :
                    IF h.raised # "none"
                    THEN [experiments |-> h.experiments, raised |-> h.raised,
                          entropies |-> <<>>, log |-> h.log]
                    ELSE MerLoop([at[1] EXCEPT !.experiments = h.experiments],
                                 mer + 1, xcol, ycol, no_mers,
                                 Append(at[2], h.entropies), h.log)))

\* entropy_distribution_percentiles(self, xcol, ycol, plotdir, no_mers): the
\* loop, then the descriptions for the labels.  np.median and np.percentile
\* reduce each mer's list; the model keeps the lists they are given.
entropy_distribution_percentiles(obj, xcol, ycol, no_mers) ==
    With(MerLoop(obj, 0, xcol, ycol, no_mers, <<>>, <<>>), LAMBDA r :
        IF r.raised = "none" /\ DescriptionsRaise(r.experiments, xcol, ycol)
        THEN [r EXCEPT !.raised = "IndexError", !.entropies = <<>>]
        ELSE r)

\* entropy_distribution_realisations(self, xcol, ycol, plotdir, no_mers): the
\* same loop, the descriptions, then entropies[i][j] for j in range(12) and
\* i in range(no_mers), which needs 12 values at every mer
entropy_distribution_realisations(obj, xcol, ycol, no_mers) ==
    With(MerLoop(obj, 0, xcol, ycol, no_mers, <<>>, <<>>), LAMBDA r :
        IF r.raised = "none"
            /\ \/ DescriptionsRaise(r.experiments, xcol, ycol)
               \/ (no_mers > 0 /\ Len(r.experiments) < no_struct)
        THEN [r EXCEPT !.raised = "IndexError", !.entropies = <<>>]
        ELSE r)

---------------------------------------------------------------------------
(* The values of the variables before anything is built or called *)

NoSet == [chain |-> <<>>, ion |-> <<>>, no_experiments |-> 0,
          magic_number |-> 0, experiments |-> <<>>]

NoSetCall == [op |-> "none", xcol |-> 0, ycol |-> 0, no_mers |-> 0,
              plot |-> FALSE, raised |-> "none", entropies |-> <<>>]

NoGrid == [done |-> FALSE, xcol |-> 0, ycol |-> 0, no_mers |-> 0,
           grid |-> <<>>]

---------------------------------------------------------------------------
(* SpecExp: one Experiment, built from a file, and the calls made on it *)

\* chain-type texts a file path is built from (plot_figs.py 61-66 takes
\* them from the command line)
Modes == {S_analysis, S_sidechain, S_other}

\* column arguments tried: below -ncols, the last column counted from the
\* end, two angle columns, and the schema lengths of the two chains
TestCols == {-102, -1, 8, 9, 77, 100}

NoCall == [op |-> "none", xcol |-> 0, ycol |-> 0, before |-> <<>>,
           result |-> Raised("none"), read |-> <<>>]

NoObj == [chain |-> "", columns |-> <<>>,
          dataframe |-> [ncols |-> 0, rows |-> <<>>]]

\* before Experiment(filepath); the variables of the other specifications rest
ExpInit ==
    /\ e_state = "none"
    /\ e_mode = <<>>
    /\ e_obj = NoObj
    /\ e_orig = <<>>
    /\ e_calls = 0
    /\ e_last = NoCall
    /\ cs_series = <<>>
    /\ cs_thres = DefaultThres
    /\ cs_pc = "idle"
    /\ cs_out1 = <<>>
    /\ cs_out2 = <<>>
    /\ s_state = "none"
    /\ s_obj = NoSet
    /\ s_ops = 0
    /\ s_before = <<>>
    /\ s_last = NoSetCall
    /\ s_log = <<>>
    /\ s_perc = NoGrid
    /\ s_real = NoGrid

\* myExperiment = Experiment(file_path); the file holds a table as wide as
\* the schema or one column wider
Construct ==
    /\ e_state = "none"
    /\ \E mode \in Modes, seed \in 0..MaxSeed, nrows \in 0..MaxRows,
          extra \in {0, 1} :
          LET filepath == PathJoin(S_data, TabFileName(S_prefix, 1, mode, S_Ca))
              ncols == Len(SchemaOf(ChainOf(filepath))) + extra
              obj == Experiment(filepath, LoadedTable(seed, nrows, ncols))
          IN  /\ e_obj' = obj
              /\ e_mode' = mode
              /\ e_orig' = obj.dataframe.rows
    /\ e_state' = "live"
    /\ UNCHANGED <<e_calls, e_last, sign_vars, set_vars>>

\* myExperiment.drop_first_observations()
DropFirst ==
    /\ e_state = "live"
    /\ e_calls <= MaxRows
    /\ LET d == drop_first_observations(e_obj.dataframe)
       IN  /\ e_obj' = [e_obj EXCEPT !.dataframe = d.df]
           /\ e_last' = [op |-> "drop_first_observations", xcol |-> 0,
                         ycol |-> 0, before |-> e_obj.dataframe.rows,
                         result |-> Raised(d.raised), read |-> <<>>]
    /\ e_calls' = e_calls + 1
    /\ UNCHANGED <<e_state, e_mode, e_orig, sign_vars, set_vars>>

\* myExperiment.get_entropy(xcol, ycol)
GetEntropy ==
    /\ e_state = "live"
    /\ e_calls <= MaxRows
    /\ \E xcol \in TestCols, ycol \in TestCols :
          \E g \in {get_entropy(e_obj, xcol, ycol)} :
              /\ e_obj' = g.obj
              /\ e_last' = [op |-> "get_entropy", xcol |-> xcol, ycol |-> ycol,
                            before |-> e_obj.dataframe.rows,
                            result |-> g.result, read |-> g.read]
    /\ e_calls' = e_calls + 1
    /\ UNCHANGED <<e_state, e_mode, e_orig, sign_vars, set_vars>>

ExpNext == Construct \/ DropFirst \/ GetEntropy

---------------------------------------------------------------------------
(* SpecSet: one SetOfExperiments and the calls made on it *)

\* numbers of realisations tried: one, two, and the 12 of plot_figs.py
SetSizes == {1, 2, no_struct}

\* data folders tried: "data", and one whose name holds 'sidechain'
DataPaths == {S_data, S_sidechain \o <<"s">>}

\* column pairs tried: the first two angle columns, and a pair whose second
\* column no table holds
SetColPairs == {<<8, 9>>, <<8, 200>>}

\* what each of the no_mers * n invocations of a completed loop was given:
\* the column pair and the rows, per mer and member
InputGrid(log, xcol, ycol, no_mers, n) ==
    [done |-> TRUE, xcol |-> xcol, ycol |-> ycol, no_mers |-> no_mers,
     grid |-> [m \in 1..no_mers |->
                 [j \in 1..n |->
                     LET e == log[(m - 1) * n + j]
                     IN  [xcol |-> e.xcol, ycol |-> e.ycol, read |-> e.read]]]]

SetInit ==
    /\ s_state = "none"
    /\ s_obj = NoSet
    /\ s_ops = 0
    /\ s_before = <<>>
    /\ s_last = NoSetCall
    /\ s_log = <<>>
    /\ s_perc = NoGrid
    /\ s_real = NoGrid
    /\ e_state = "none"
    /\ e_mode = <<>>
    /\ e_obj = NoObj
    /\ e_orig = <<>>
    /\ e_calls = 0
    /\ e_last = NoCall
    /\ cs_series = <<>>
    /\ cs_thres = DefaultThres
    /\ cs_pc = "idle"
    /\ cs_out1 = <<>>
    /\ cs_out2 = <<>>

\* mySetOfExperiments = SetOfExperiments(datafolder, complex, ion, myMode);
\* the files hold tables as wide as the schema, of nrows rows, but for the
\* file numbered short (if any), which holds no row
SetConstruct ==
    /\ s_state = "none"
    /\ \E data_path \in DataPaths, chain \in Modes, n \in SetSizes,
          seed \in 0..MaxSeed, nrows \in 0..MaxRows, short \in {0, 2} :
          LET path(i) == PathJoin(data_path,
                                  TabFileName(S_prefix, i, chain, S_Ca))
              tables == [i \in 1..n |->
                            LoadedTable(seed + i,
                                IF i = short THEN 0 ELSE nrows,
                                Len(SchemaOf(ChainOf(path(i)))))]
          IN  IF ChainAccepted(chain)
              THEN /\ s_obj' = SetOfExperiments(data_path, S_prefix, S_Ca,
                                                chain, n, tables)
                   /\ s_state' = "live"
              ELSE /\ s_obj' = NoSet
                   /\ s_state' = "failed"
    /\ UNCHANGED <<s_ops, s_before, s_last, s_log, s_perc, s_real,
                   exp_vars, sign_vars>>

\* mySetOfExperiments.hist_of_entropy(xcol, ycol, plotdir)
HistOfEntropy ==
    /\ s_state = "live"
    /\ s_ops < MaxOps
    /\ \E p \in SetColPairs, plotdir \in BOOLEAN :
          \E r \in {hist_of_entropy(s_obj.experiments, 0, p[1], p[2],
                                     plotdir, <<>>)} :
              /\ s_obj' = [s_obj EXCEPT !.experiments = r.experiments]
              /\ s_last' = [op |-> "hist_of_entropy", xcol |-> p[1],
                            ycol |-> p[2], no_mers |-> 0, plot |-> plotdir,
                            raised |-> r.raised, entropies |-> r.entropies]
              /\ s_log' = r.log
    /\ s_before' = s_obj.experiments
    /\ s_ops' = s_ops + 1
    /\ UNCHANGED <<s_state, s_perc, s_real, exp_vars, sign_vars>>

\* mySetOfExperiments.entropy_distribution_percentiles(xcol, ycol, plotdir,
\* no_mers)
Percentiles ==
    /\ s_state = "live"
    /\ s_ops < MaxOps
    /\ \E p \in SetColPairs, no_mers \in 1..MaxMers :
          \E r \in {entropy_distribution_percentiles(s_obj, p[1], p[2],
                                                      no_mers)} :
              /\ s_obj' = [s_obj EXCEPT !.experiments = r.experiments]
              /\ s_last' = [op |-> "entropy_distribution_percentiles",
                            xcol |-> p[1], ycol |-> p[2], no_mers |-> no_mers,
                            plot |-> TRUE, raised |-> r.raised,
                            entropies |-> r.entropies]
              /\ s_log' = r.log
              /\ s_perc' = IF r.raised = "none"
                           THEN InputGrid(r.log, p[1], p[2], no_mers,
                                          Len(s_obj.experiments))
                           ELSE s_perc
    /\ s_before' = s_obj.experiments
    /\ s_ops' = s_ops + 1
    /\ UNCHANGED <<s_state, s_real, exp_vars, sign_vars>>

\* mySetOfExperiments.entropy_distribution_realisations(xcol, ycol, plotdir,
\* no_mers)
Realisations ==
    /\ s_state = "live"
    /\ s_ops < MaxOps
    /\ \E p \in SetColPairs, no_mers \in 1..MaxMers :
          \E r \in {entropy_distribution_realisations(s_obj, p[1], p[2],
                                                       no_mers)} :
              /\ s_obj' = [s_obj EXCEPT !.experiments = r.experiments]
              /\ s_last' = [op |-> "entropy_distribution_realisations",
                            xcol |-> p[1], ycol |-> p[2], no_mers |-> no_mers,
                            plot |-> TRUE, raised |-> r.raised,
                            entropies |-> r.entropies]
              /\ s_log' = r.log
              /\ s_real' = IF r.raised = "none"
                           THEN InputGrid(r.log, p[1], p[2], no_mers,
                                          Len(s_obj.experiments))
                           ELSE s_real
    /\ s_before' = s_obj.experiments
    /\ s_ops' = s_ops + 1
    /\ UNCHANGED <<s_state, s_perc, exp_vars, sign_vars>>

SetNext == SetConstruct \/ HistOfEntropy \/ Percentiles \/ Realisations

---------------------------------------------------------------------------
(* SpecSigns: correct_signs applied once and twice to bounded inputs *)

Vals == (-MaxVal)..MaxVal

\* the thresholds tried: the default, one above 1, and 0 (never flips)
Thresholds == {DefaultThres, <<2, 1>>, <<0, 1>>}

\* [1.0, -0.9, -0.8] in tenths, and its corrected form
ExampleSeries == <<10, -9, -8>>
ExampleCorrected == <<10, 9, 8>>

SignsInit ==
    /\ cs_series \in SeqsUpTo(Vals, MaxLen)
    /\ cs_thres \in Thresholds
    /\ cs_pc = "idle"
    /\ cs_out1 = <<>>
    /\ cs_out2 = <<>>
    /\ e_state = "none"
    /\ e_mode = <<>>
    /\ e_obj = NoObj
    /\ e_orig = <<>>
    /\ e_calls = 0
    /\ e_last = NoCall
    /\ s_state = "none"
    /\ s_obj = NoSet
    /\ s_ops = 0
    /\ s_before = <<>>
    /\ s_last = NoSetCall
    /\ s_log = <<>>
    /\ s_perc = NoGrid
    /\ s_real = NoGrid

\* y = correct_signs(y)
CorrectOnce ==
    /\ cs_pc = "idle"
    /\ cs_out1' = correct_signs(cs_series, cs_thres)
    /\ cs_pc' = "once"
    /\ UNCHANGED <<cs_series, cs_thres, cs_out2, exp_vars, set_vars>>

\* a second application, to the result of the first
CorrectTwice ==
    /\ cs_pc = "once"
    /\ cs_out2' = correct_signs(cs_out1, cs_thres)
    /\ cs_pc' = "twice"
    /\ UNCHANGED <<cs_series, cs_thres, cs_out1, exp_vars, set_vars>>

SignsNext == CorrectOnce \/ CorrectTwice

---------------------------------------------------------------------------
(* The specifications *)

vars == <<sign_vars, exp_vars, set_vars>>

SpecSigns == SignsInit /\ [][SignsNext]_vars

SpecExp == ExpInit /\ [][ExpNext]_vars

SpecSet == SetInit /\ [][SetNext]_vars

---------------------------------------------------------------------------
(* Claims about correct_signs *)

\* C3: correct_signs is idempotent at the default threshold 0.5: a second
\* application returns the result of the first, and the result of one
\* application holds no adjacent pair that meets the flip condition.
C3_Idempotent ==
    cs_thres = DefaultThres =>
        /\ cs_pc = "twice" => cs_out2 = cs_out1
        /\ cs_pc # "idle" =>
              \A i \in 1..(Len(cs_out1) - 1) :
                  ~(2 * Abs(cs_out1[i] + cs_out1[i + 1]) < Abs(cs_out1[i + 1]))

\* a series the first pass changed in two places, applied twice
C3_Witness ==
    /\ cs_pc = "twice"
    /\ cs_thres = DefaultThres
    /\ Len(cs_series) = 3
    /\ cs_out1[2] # cs_series[2]
    /\ cs_out1[3] = cs_series[3]
    /\ cs_out1[3] # 0
    /\ cs_out2 = cs_out1

\* The scan, stated over the result: some sign pattern f with f[1] = 1 has
\* out[k] = f[k] * s[k], and the sign changes between k and k+1 exactly when
\* the flip condition holds of the current values, out[k] and f[k] * s[k+1].
IsScanResult(s, out, thres) ==
    /\ Len(out) = Len(s)
    /\ \E f \in [1..Len(s) -> {1, -1}] :
          /\ Len(s) > 0 => f[1] = 1
          /\ \A k \in 1..Len(s) : out[k] = f[k] * s[k]
          /\ \A k \in 1..(Len(s) - 1) :
                (f[k + 1] # f[k]) <=>
                    (thres[2] * Abs(out[k] + f[k] * s[k + 1])
                        < thres[1] * Abs(f[k] * s[k + 1]))

\* C4: correct_signs(s, thres) is the in-order scan that negates the suffix
\* from i+1 whenever the condition holds of the current values; the output
\* has the length of s and its first element; a series of length <= 1 is
\* returned unchanged; [1.0, -0.9, -0.8] at 0.5 gives [1.0, 0.9, 0.8].
C4_ScanResult ==
    cs_pc # "idle" =>
        /\ IsScanResult(cs_series, cs_out1, cs_thres)
        /\ Len(cs_out1) = Len(cs_series)
        /\ Len(cs_series) > 0 => cs_out1[1] = cs_series[1]
        /\ Len(cs_series) <= 1 => cs_out1 = cs_series
        /\ (cs_series = ExampleSeries /\ cs_thres = <<1, 2>>)
              => cs_out1 = ExampleCorrected

\* the example of the claim, corrected
C4_Witness ==
    /\ cs_pc = "once"
    /\ cs_series = ExampleSeries
    /\ cs_thres = <<1, 2>>
    /\ cs_out1 = ExampleCorrected

---------------------------------------------------------------------------
(* Claims about one Experiment *)

\* C1: the schema built by the constructor has 8 + 23*4 = 100 entries for
\* the main chain and 8 + 23*3 = 77 for the side chain, and its first 8
\* entries are the fixed time and energy columns in both cases.
C1_SchemaLength ==
    e_state = "live" =>
        /\ e_obj.chain \in {"main chain", "side chain"}
        /\ e_obj.chain = "main chain" => Len(e_obj.columns) = 100
        /\ e_obj.chain = "side chain" => Len(e_obj.columns) = 77
        /\ SubSeq(e_obj.columns, 1, 8) = FixedColumns
        /\ e_obj.columns[1].description = <<"Time">>
        /\ \A k \in 1..Len(e_obj.columns) :
              (e_obj.columns[k].unit = "deg") <=> (k > 8)

\* a main-chain Experiment with its 100 columns
C1_Witness ==
    /\ e_state = "live"
    /\ e_obj.chain = "main chain"
    /\ Len(e_obj.columns) = 100
    /\ e_mode = S_analysis

\* C5: get_entropy on a table that holds no row once the first is dropped
\* (0 or 1 rows before the call) fails; it never returns a value or NaN.
C5_EmptyFails ==
    (e_last.op = "get_entropy" /\ Len(e_last.before) <= 1)
        => e_last.result.kind \notin {"value", "nan"}

\* C6: get_entropy fails with an index error whenever xcol or ycol lies
\* outside 0..len(schema)-1, and returns a value only when both lie inside.
C6_SchemaRange ==
    e_last.op = "get_entropy" =>
        LET inside(c) == 0 <= c /\ c < Len(e_obj.columns)
        IN  /\ (~inside(e_last.xcol) \/ ~inside(e_last.ycol))
                  => e_last.result.kind = "IndexError"
            /\ e_last.result.kind \in {"value", "nan"}
                  => (inside(e_last.xcol) /\ inside(e_last.ycol))

\* C7: no Experiment is constructed for a chain classification that is
\* neither of the two recognised ones.
C7_FailFast ==
    e_state = "live" => e_mode \in {S_analysis, S_sidechain}

\* C9: every call of drop_first_observations and of get_entropy on a table
\* with a row removes exactly the first row; after k calls on a table of
\* n >= k rows the table is the original rows k..n-1 in order, and a
\* get_entropy that is the k-th call computes its histogram over them.
C9_RepeatedDrops ==
    e_state = "live" =>
        /\ (e_last.op # "none" /\ e_last.before # <<>>)
              => e_obj.dataframe.rows = Tail(e_last.before)
        /\ e_calls <= Len(e_orig) =>
              /\ e_obj.dataframe.rows = SubSeq(e_orig, e_calls + 1, Len(e_orig))
              /\ (e_last.op = "get_entropy"
                    /\ e_last.result.kind \in {"value", "nan"})
                    => e_last.read = SubSeq(e_orig, e_calls + 1, Len(e_orig))

\* the third call on a table of three rows, a get_entropy over the last row
C9_Witness ==
    /\ e_state = "live"
    /\ Len(e_orig) = 3
    /\ e_calls = 2
    /\ e_last.op = "get_entropy"
    /\ e_last.result.kind = "value"
    /\ e_last.read = <<e_orig[3]>>

---------------------------------------------------------------------------
(* Claims about a SetOfExperiments *)

\* C2: for every angle role with base column b (its column for mer 0) and
\* every mer m in 0..22, the column b + m * magic_number is an index of the
\* schema whose description is that role for mers m+1, m+2: with magic
\* number 4 against the main-chain schema ('analysis') and 1 against the
\* side-chain schema ('sidechain'); the cross-mer aggregation calls
\* get_entropy with exactly these columns.
C2_OffsetMapping ==
    s_state = "live" =>
        /\ s_obj.chain = S_analysis => s_obj.magic_number = 4
        /\ s_obj.chain = S_sidechain => s_obj.magic_number = 1
        /\ \A j \in 1..Len(s_obj.experiments) :
              LET cols == s_obj.experiments[j].columns
                  chain == s_obj.experiments[j].chain
              IN  ((s_obj.chain = S_analysis /\ chain = "main chain")
                      \/ (s_obj.chain = S_sidechain /\ chain = "side chain"))
                  => \A b \in 0..(Len(cols) - 1) :
                        (cols[b + 1].unit = "deg"
                            /\ cols[b + 1].description[3] = 1)
                        => \A m \in 0..22 :
                              LET c == b + m * s_obj.magic_number
                              IN  /\ c < Len(cols)
                                  /\ cols[c + 1].description
                                        = <<cols[b + 1].description[1],
                                            " mers ", m + 1, ", ", m + 2>>
        /\ s_last.op \in {"entropy_distribution_percentiles",
                          "entropy_distribution_realisations"}
              => \A k \in 1..Len(s_log) :
                    /\ s_log[k].xcol
                          = s_last.xcol + s_log[k].mer * s_obj.magic_number
                    /\ s_log[k].ycol
                          = s_last.ycol + s_log[k].mer * s_obj.magic_number

\* percentile mode over two mers of a main-chain set: the second mer read
\* columns 12 and 13
C2_Witness ==
    /\ s_state = "live"
    /\ s_obj.chain = S_analysis
    /\ s_obj.experiments[1].chain = "main chain"
    /\ s_last.op = "entropy_distribution_percentiles"
    /\ s_last.raised = "none"
    /\ s_last.no_mers = 2
    /\ s_log[Len(s_log)].mer = 1
    /\ s_log[Len(s_log)].xcol = 12
    /\ s_log[Len(s_log)].ycol = 13

\* C8: hist_of_entropy calls get_entropy once on every member, in
\* realisation order, with the same (xcol, ycol), and returns the members'
\* results in that order; if a member's computation fails the call fails
\* and returns no list.
C8_AllOrNothing ==
    s_last.op = "hist_of_entropy" =>
        LET n == Len(s_before)
            res(i) == get_entropy(s_before[i], s_last.xcol, s_last.ycol).result
        IN  /\ \A k \in 1..Len(s_log) :
                  /\ s_log[k].exp = k
                  /\ s_log[k].xcol = s_last.xcol
                  /\ s_log[k].ycol = s_last.ycol
            /\ s_last.raised = "none" =>
                  /\ Len(s_log) = n
                  /\ Len(s_last.entropies) = n
                  /\ \A i \in 1..n :
                        /\ s_last.entropies[i] = res(i)
                        /\ res(i).kind # "IndexError"
            /\ (\E i \in 1..n : res(i).kind = "IndexError")
                  => (s_last.raised # "none" /\ s_last.entropies = <<>>)
            /\ s_last.raised # "none" => s_last.entropies = <<>>

\* twelve members, the second of which fails after the first returned
C8_Witness ==
    /\ s_last.op = "hist_of_entropy"
    /\ Len(s_before) = 12
    /\ s_last.raised = "IndexError"
    /\ Len(s_log) = 2
    /\ s_log[1].result.kind = "value"
    /\ s_last.entropies = <<>>

\* C10: run on the same set with the same base columns and mer count, the
\* two modes compute the entropy of every mer and realisation from the same
\* column pair and the same table rows.
C10_SameInputs ==
    (/\ s_perc.done
     /\ s_real.done
     /\ s_perc.xcol = s_real.xcol
     /\ s_perc.ycol = s_real.ycol
     /\ s_perc.no_mers = s_real.no_mers)
        => s_perc.grid = s_real.grid

===========================================================================
